---- MODULE Spec2Model ----
(***************************************************************************)
(* A model of the Bundesliga collection workflow of volleystats            *)
(* (src/volleystats/workflows/vbl.py) and of the competition spider        *)
(* (src/volleystats/spiders/competition.py).                               *)
(*                                                                         *)
(* Spec        the control flow of run_vbl_full_season_workflow            *)
(* SpiderSpec  the life of one CompetitionMatchesSpider:                   *)
(*             __init__, parse of the one response, closed                 *)
(*                                                                         *)
(* The module-level names Settings, install_reactor and CrawlerRunner      *)
(* (vbl.py:22-34) are read as the Scrapy objects of those names.           *)
(***************************************************************************)
EXTENDS Integers, Sequences, FiniteSets, TLC

VARIABLES
    \* ---- run_vbl_full_season_workflow (vbl.py:37-79) ----
    pc,                 \* position of the workflow's single control thread
    phase_index,        \* 1-based index of the phase the for loop is at
    unique_match_ids,   \* vbl.py:44, the fan-out queue
    seen_match_ids,     \* vbl.py:45
    fresh_ids,          \* vbl.py:51, as last computed
    crawl,              \* per phase: state of the crawl of vbl.py:158
    resolved,           \* per phase: what _resolve_competition_file gave
    read_ids,           \* per phase: what _read_match_ids returned
    raised,             \* the exception that left the workflow, or "none"
    jobs,               \* match-statistics crawls handed to a runner
    \* ---- CompetitionMatchesSpider (competition.py:14-162) ----
    spc,                \* position in the spider's life
    season_start_year,  \* competition.py:30, {} is None
    season_end_year,    \* competition.py:31, {} is None
    emitted,            \* the records parse has yielded, in order
    items_scraped,      \* competition.py:52
    first_item_date,    \* competition.py:50, {} is ''
    last_item_date,     \* competition.py:51, {} is ''
    page,               \* the rows of the response given to parse
    prov_file,          \* the provisional CSV: "absent", "prior" or "fresh"
    renamed_files,      \* the renamed CSVs of this phase in data/
    rename_target,      \* dst of competition.py:152, {} when none was built
    rename_outcome,     \* what os.rename of competition.py:158 did
    comp_key,           \* (fed_acronym, competition_id) of the spider
    season_args,        \* season_start_year, season_end_year as given to __init__
    handed_back,        \* what _resolve_competition_file finds after the crawl
    spider_raised,      \* exception raised by __init__, parse or closed
    \* ---- _resolve_competition_file on a data/ directory (vbl.py:172-192) ----
    rpc,                \* "idle", "listed" or "returned"
    data_dir,           \* the files in data/, each with its mtime
    query,              \* (fed_acronym, competition_id, competition_pid) asked for
    resolver_result     \* the file returned, or the error raised

wfvars == <<pc, phase_index, unique_match_ids, seen_match_ids, fresh_ids,
            crawl, resolved, read_ids, raised, jobs>>
spvars == <<spc, season_start_year, season_end_year, emitted, items_scraped,
            first_item_date, last_item_date, page, prov_file, renamed_files,
            rename_target, rename_outcome, comp_key, season_args, handed_back,
            spider_raised>>
rsvars == <<rpc, data_dir, query, resolver_result>>
vars == <<wfvars, spvars, rsvars>>

----------------------------------------------------------------------------
(* Bounds *)
MaxPhases == 2          \* phases in the configured list
MaxIdsPerPhase == 2     \* rows in one competition CSV
NumMatchIds == 2        \* distinct match IDs
MaxRows == 3            \* match rows on one competition page
MaxMtime == 2           \* distinct modification times in data/

MatchIds == 1..NumMatchIds
Phases == 1..MaxPhases

RECURSIVE SeqsUpTo(_, _)
SeqsUpTo(S, n) ==
    IF n = 0 THEN {<<>>}
    ELSE LET shorter == SeqsUpTo(S, n - 1)
         IN shorter \cup {Append(s, x) : s \in {t \in shorter : Len(t) = n - 1}, x \in S}

IdLists == SeqsUpTo(MatchIds, MaxIdsPerPhase)

Range(s) == {s[k] : k \in 1..Len(s)}

----------------------------------------------------------------------------
(* vbl.py: the workflow *)

\* A listing of data/ for one phase: which renamed files exist, by mtime, and
\* whether the provisional file exists.
DirListings == [renamed : SUBSET {1, 2}, provisional : BOOLEAN]

\* vbl.py:172-192. Candidates sorted by mtime, newest first; then the
\* provisional name; else FileNotFoundError.
CHOOSEMax(S) == CHOOSE m \in S : \A x \in S : x <= m

_resolve_competition_file(dir) ==
    IF dir.renamed # {} THEN [kind |-> "renamed", mtime |-> CHOOSEMax(dir.renamed)]
    ELSE IF dir.provisional THEN [kind |-> "provisional", mtime |-> 0]
    ELSE [kind |-> "NotFound", mtime |-> 0]

\* vbl.py:51
RECURSIVE FilterUnseen(_, _)
FilterUnseen(ids, seen) ==
    IF ids = <<>> THEN <<>>
    ELSE IF Head(ids) \in seen THEN FilterUnseen(Tail(ids), seen)
         ELSE <<Head(ids)>> \o FilterUnseen(Tail(ids), seen)

\* vbl.py:56: unique_match_ids.extend(fresh_ids)
PrependFresh(queue, fresh) == fresh \o queue

ExtendQueue(queue, fresh) == queue \o fresh

\* vbl.py:217-225: the crawls _collect_match_statistics hands to its runner,
\* in submission order.
RECURSIVE _collect_match_statistics(_, _)
_collect_match_statistics(fed, ids) ==
    IF ids = <<>> THEN <<>>
    ELSE << [spider |-> "HomeStatsSpider", fed_acronym |-> fed, match_id |-> Head(ids)],
            [spider |-> "GuestStatsSpider", fed_acronym |-> fed, match_id |-> Head(ids)] >>
         \o _collect_match_statistics(fed, Tail(ids))

\* vbl.py:208: "data/%(fed_acronym)s-%(match_id)s-%(name)s.csv", the feed a
\* match-statistics crawl writes; name is the spider's.
OutputPath(job) == <<job.fed_acronym, job.match_id, job.spider>>

\* vbl.py:47-50: nothing catches an exception of _collect_competition_phase,
\* so it leaves the for loop and the function.
PcSwallowFailure(found) == "loop_head"

PcAfterPhase(found) == IF found THEN "loop_head" ELSE "raised"

WfInit ==
    /\ pc = "loop_head"
    /\ phase_index = 1
    /\ unique_match_ids = <<>>
    /\ seen_match_ids = {}
    /\ fresh_ids = <<>>
    /\ crawl = [p \in Phases |-> "idle"]
    /\ resolved = [p \in Phases |-> "none"]
    /\ read_ids = [p \in Phases |-> <<>>]
    /\ raised = "none"
    /\ jobs = <<>>

\* vbl.py:47-49 and 146-163: the loop takes the next phase and
\* _collect_competition_phase builds a CrawlerProcess and calls crawl() on
\* it. The process is never started, so the crawl is scheduled, not run.
LaunchCrawl ==
    /\ pc = "loop_head"
    /\ phase_index <= MaxPhases
    /\ crawl' = [crawl EXCEPT ![phase_index] = "launched"]
    /\ pc' = "collect"
    /\ UNCHANGED <<phase_index, unique_match_ids, seen_match_ids, fresh_ids,
                   resolved, read_ids, raised, jobs>>

\* vbl.py:165-169 and 50-61: resolve the phase's file in data/, read its
\* match IDs, append the unseen ones.
ResolveAndRead ==
    /\ pc = "collect"
    /\ \E dir \in DirListings, ids \in IdLists :
         LET file == _resolve_competition_file(dir)
             found == file.kind # "NotFound"
             phase_match_ids == IF found THEN ids ELSE <<>>
             fresh == FilterUnseen(phase_match_ids, seen_match_ids)
         IN /\ resolved' = [resolved EXCEPT ![phase_index] = file.kind]
            /\ read_ids' = [read_ids EXCEPT ![phase_index] = phase_match_ids]
            /\ raised' = IF found THEN raised ELSE "FileNotFoundError"
            /\ pc' = PcAfterPhase(found)
            /\ phase_index' = IF found THEN phase_index + 1 ELSE phase_index
            /\ fresh_ids' = IF found THEN fresh ELSE fresh_ids
            /\ unique_match_ids' = ExtendQueue(unique_match_ids, fresh)
            /\ seen_match_ids' = seen_match_ids \cup Range(fresh)
    /\ UNCHANGED <<crawl, jobs>>

\* vbl.py:63: after the loop the name _run_workflow is looked up; the module
\* defines no such name, so NameError leaves the function.
CallRunWorkflow ==
    /\ pc = "loop_head"
    /\ phase_index > MaxPhases
    /\ pc' = "raised"
    /\ raised' = "NameError"
    /\ UNCHANGED <<phase_index, unique_match_ids, seen_match_ids, fresh_ids,
                   crawl, resolved, read_ids, jobs>>

----------------------------------------------------------------------------
(* competition.py: the spider *)

\* An optional value is a set with at most one element: {} is None (or '').
None == {}
Some(x) == {x}
The(o) == CHOOSE x \in o : TRUE

\* Python truthiness of an optional integer: None and 0 are false.
Truthy(o) == o # None /\ o # Some(0)

\* competition.py:9-12
_DEFAULT_SEASON_RANGES ==
    [k \in {<<"vbl", "160">>, <<"vbl", "185">>} |-> <<2025, 2026>>]

CompetitionKeys == {<<"vbl", "160">>, <<"vbl", "999">>}

\* The season arguments as Scrapy hands them over: None, or the text of an
\* integer.
SeasonArgs == {None, Some(0), Some(2025), Some(2026)}

\* A canonical date is written here as the integer YYYYMM, whose order is
\* the order of the date strings; a date text is a date or "unparsable".
Dates == {202406, 202503, 202611, 202706}
DateTexts == Dates \cup {0}

\* A row of the page: the onclick attribute of the match link is "ok"
\* (holds mID=<digits>), "absent", or "nomatch" (holds no mID=<digits>).
GoodRows == [onclick : {"ok"}, date_text : DateTexts]
BadRows == [onclick : {"absent", "nomatch"}, date_text : {0}]
Rows == GoodRows \cup BadRows
Pages == SeqsUpTo(Rows, MaxRows)

\* utils.parse_short_date: the canonical date of a date text, None when the
\* text is no date.
parse_short_date(text) == IF text \in Dates THEN Some(text) ELSE None

\* competition.py:72-77: int(match_date.split('-')[0])
MatchYear(match_date) ==
    IF match_date # None THEN Some(The(match_date) \div 100) ELSE None

\* competition.py:30-31: int(arg) if arg else None
IntOrNone(arg) == arg

\* competition.py:33-38
WithDefaultForAnyMissing(key, start, end) ==
    IF (start = None \/ end = None) /\ key \in DOMAIN _DEFAULT_SEASON_RANGES
    THEN <<Some(_DEFAULT_SEASON_RANGES[key][1]), Some(_DEFAULT_SEASON_RANGES[key][2])>>
    ELSE <<start, end>>

WithDefault(key, start, end) ==
    IF start = None /\ end = None /\ key \in DOMAIN _DEFAULT_SEASON_RANGES
    THEN <<Some(_DEFAULT_SEASON_RANGES[key][1]), Some(_DEFAULT_SEASON_RANGES[key][2])>>
    ELSE <<start, end>>

\* competition.py:40-42
RangeIsInvalid(start, end) ==
    Truthy(start) /\ Truthy(end) /\ The(end) < The(start)

\* competition.py:79-86: TRUE when the row is kept.
Keeps(year, start, end) ==
    IF year # None
    THEN /\ ~(Truthy(start) /\ The(year) < The(start))
         /\ ~(Truthy(end) /\ The(year) > The(end))
    ELSE ~(Truthy(start) \/ Truthy(end))

\* competition.py:65-116: the loop over the rows. Gives the records yielded
\* and the exception that ended the loop, if any.
RECURSIVE ParseRows(_, _, _, _)
ParseRows(rows, start, end, acc) ==
    IF rows = <<>> THEN [items |-> acc, exc |-> "none"]
    ELSE LET row == Head(rows)
         IN IF row.onclick = "absent" THEN [items |-> acc, exc |-> "TypeError"]
            ELSE IF row.onclick = "nomatch" THEN [items |-> acc, exc |-> "AttributeError"]
            ELSE LET match_date == parse_short_date(row.date_text)
                     match_year == MatchYear(match_date)
                 IN IF Keeps(match_year, start, end)
                    THEN ParseRows(Tail(rows), start, end,
                                   Append(acc, [match_date |-> match_date]))
                    ELSE ParseRows(Tail(rows), start, end, acc)

\* competition.py:123: the dates of the items that have one
ItemDates(items) ==
    {The(items[k].match_date) : k \in {j \in 1..Len(items) : items[j].match_date # None}}

SetMin(S) == CHOOSE m \in S : \A x \in S : m <= x
SetMax(S) == CHOOSE m \in S : \A x \in S : x <= m

\* competition.py:123-135: first and last of the sorted dates, and the
\* four-digit number the regex finds in each.
FirstAndLastUnsorted(items) ==
    LET dated == SelectSeq(items, LAMBDA it : it.match_date # None)
    IN <<The(dated[1].match_date) \div 100, The(dated[Len(dated)].match_date) \div 100>>

FirstAndLast(items) ==
    <<SetMin(ItemDates(items)) \div 100, SetMax(ItemDates(items)) \div 100>>

\* What data/ may hold of this phase before the crawl: a provisional file of
\* an earlier run, renamed files of earlier runs.
PriorRenamed == {{}, {[first |-> 2025, last |-> 2026, content |-> "prior"]},
                     {[first |-> 2024, last |-> 2025, content |-> "prior"]}}

SpInit ==
    /\ spc = "new"
    /\ season_start_year = None
    /\ season_end_year = None
    /\ emitted = <<>>
    /\ items_scraped = 0
    /\ first_item_date = None
    /\ last_item_date = None
    /\ page = <<>>
    /\ prov_file = "absent"
    /\ renamed_files = {}
    /\ rename_target = None
    /\ rename_outcome = "none"
    /\ comp_key = <<"vbl", "160">>
    /\ season_args = <<None, None>>
    /\ handed_back = [kind |-> "none", content |-> "none"]
    /\ spider_raised = "none"

\* competition.py:17-54: __init__, run by the crawler against the data/
\* directory the earlier runs left.
SpiderConstruct ==
    /\ spc = "new"
    /\ \E key \in CompetitionKeys, start_arg \in SeasonArgs, end_arg \in SeasonArgs,
          prov \in {"absent", "prior"}, prior \in PriorRenamed :
         LET window == WithDefault(key, IntOrNone(start_arg), IntOrNone(end_arg))
             invalid == RangeIsInvalid(window[1], window[2])
         IN /\ comp_key' = key
            /\ season_args' = <<start_arg, end_arg>>
            /\ season_start_year' = window[1]
            /\ season_end_year' = window[2]
            /\ prov_file' = prov
            /\ renamed_files' = prior
            /\ spc' = IF invalid THEN "init_failed" ELSE "opened"
            /\ spider_raised' = IF invalid THEN "ValueError" ELSE "none"
    /\ UNCHANGED <<emitted, items_scraped, first_item_date, last_item_date, page,
                   rename_target, rename_outcome, handed_back>>

\* competition.py:60-135: parse of the one response. The records it yields
\* go to the feed of vbl.py:146-154, which writes the provisional file anew;
\* whether a feed without records leaves a file is the exporter's choice.
Parse ==
    /\ spc = "opened"
    /\ \E rows \in Pages :
         LET run == ParseRows(rows, season_start_year, season_end_year, <<>>)
             competition_items == run.items
             finished == run.exc = "none"
             no_dates == ItemDates(competition_items) = {}
             fl == FirstAndLast(competition_items)
         IN /\ page' = rows
            /\ emitted' = competition_items
            /\ items_scraped' = items_scraped + Len(competition_items)
            /\ IF ~finished
               THEN /\ spider_raised' = run.exc
                    /\ UNCHANGED <<first_item_date, last_item_date>>
               ELSE IF competition_items = <<>>
               THEN /\ spider_raised' = "none"
                    /\ first_item_date' = None
                    /\ last_item_date' = None
               ELSE IF no_dates
               THEN /\ spider_raised' = "IndexError"
                    /\ UNCHANGED <<first_item_date, last_item_date>>
               ELSE /\ spider_raised' = "none"
                    /\ first_item_date' = Some(fl[1])
                    /\ last_item_date' = Some(fl[2])
            /\ IF competition_items # <<>>
               THEN prov_file' = "fresh"
               ELSE prov_file' \in {prov_file, "fresh"}
    /\ spc' = "parsed"
    /\ UNCHANGED <<season_start_year, season_end_year, renamed_files,
                   rename_target, rename_outcome, comp_key, season_args, handed_back>>

\* competition.py:142: the test that makes closed return without renaming
SkipsNothing(items, first, last) == FALSE

SkipsRename(items, first, last) == items = 0 \/ first = None \/ last = None

\* competition.py:152-155: the year texts put into dst; '' is written 0
YearText(o) == IF o = None THEN 0 ELSE The(o)

\* competition.py:137-162: closed. os.rename onto an existing dst replaces
\* it on POSIX and raises FileExistsError on Windows.
Closed ==
    /\ spc = "parsed"
    /\ spc' = "closed"
    /\ IF SkipsRename(items_scraped, first_item_date, last_item_date)
       THEN UNCHANGED <<prov_file, renamed_files, rename_target, rename_outcome,
                        spider_raised>>
       ELSE LET first == YearText(first_item_date)
                last == YearText(last_item_date)
                same == {f \in renamed_files : f.first = first /\ f.last = last}
                dst == [first |-> first, last |-> last, content |-> prov_file]
            IN /\ rename_target' = Some(<<first, last>>)
               /\ IF prov_file = "absent"
                  THEN /\ rename_outcome' = "failed"
                       /\ spider_raised' = "FileNotFoundError"
                       /\ UNCHANGED <<prov_file, renamed_files>>
                  ELSE IF same = {}
                  THEN /\ rename_outcome' = "renamed"
                       /\ renamed_files' = renamed_files \cup {dst}
                       /\ prov_file' = "absent"
                       /\ UNCHANGED spider_raised
                  ELSE \/ /\ rename_outcome' = "replaced"
                          /\ renamed_files' = (renamed_files \ same) \cup {dst}
                          /\ prov_file' = "absent"
                          /\ UNCHANGED spider_raised
                       \/ /\ rename_outcome' = "exists"
                          /\ UNCHANGED <<prov_file, renamed_files, spider_raised>>
    /\ UNCHANGED <<season_start_year, season_end_year, emitted, items_scraped,
                   first_item_date, last_item_date, page, comp_key, season_args,
                   handed_back>>

\* A file written in this run is newer than any file of an earlier run.
MtimeOf(content) == IF content = "fresh" THEN 2 ELSE 1
ContentOf(mtime) == IF mtime = 2 THEN "fresh" ELSE "prior"

\* vbl.py:165-169: _resolve_competition_file on the directory the finished
\* crawl left. Every file in renamed_files matches the phase's pattern.
ResolveAfterCrawl ==
    /\ spc = "closed"
    /\ spc' = "resolved"
    /\ LET found == _resolve_competition_file(
                        [renamed |-> {MtimeOf(f.content) : f \in renamed_files},
                         provisional |-> prov_file # "absent"])
       IN handed_back' =
            [kind |-> found.kind,
             content |-> IF found.kind = "renamed" THEN ContentOf(found.mtime)
                         ELSE IF found.kind = "provisional" THEN prov_file
                         ELSE "none"]
    /\ UNCHANGED <<season_start_year, season_end_year, emitted, items_scraped,
                   first_item_date, last_item_date, page, prov_file, renamed_files,
                   rename_target, rename_outcome, comp_key, season_args,
                   spider_raised>>

----------------------------------------------------------------------------
(* vbl.py: _resolve_competition_file over the names in data/ *)

\* A file name is the sequence of its parts between '-'.
\* competition.py:152-155 (and the pattern of vbl.py:173-174): the renamed
\* name; the sub-stage part is left out when competition_pid is empty.
RenamedName(ph, range) ==
    <<ph[1], ph[2]>> \o (IF ph[3] # "" THEN <<ph[3]>> ELSE <<>>)
        \o <<range[1], range[2], "competition", "matches.csv">>

\* competition.py:138 and vbl.py:183-185: the provisional name
ProvisionalName(ph) == <<ph[1], ph[2], ph[3], "competition_matches.csv">>

\* vbl.py:173-176: glob of f"{fed}-{id}-{pid_prefix}*-competition-matches.csv";
\* the * stands for any text, '-' included.
GlobMatches(name, ph) ==
    LET prefix == <<ph[1], ph[2]>> \o (IF ph[3] # "" THEN <<ph[3]>> ELSE <<>>)
        suffix == <<"competition", "matches.csv">>
        n == Len(name)
    IN /\ n >= Len(prefix) + 1 + Len(suffix)
       /\ SubSeq(name, 1, Len(prefix)) = prefix
       /\ SubSeq(name, n - Len(suffix) + 1, n) = suffix

\* The phases whose files may lie in data/, and the year ranges of their
\* renamed files.
KnownPhases == {<<"vbl", "160", "42">>, <<"vbl", "160", "">>, <<"vbl", "185", "42">>}
KnownRanges == {<<"2025", "2026">>}

FileOf(ph, kind, range) ==
    [owner |-> ph, kind |-> kind,
     name |-> IF kind = "renamed" THEN RenamedName(ph, range) ELSE ProvisionalName(ph)]

AllFiles ==
    {FileOf(ph, "renamed", r) : ph \in KnownPhases, r \in KnownRanges}
        \cup {FileOf(<<"vbl", "160", "42">>, "renamed", <<"2024", "2025">>)}
        \cup {FileOf(ph, "provisional", <<>>) : ph \in {<<"vbl", "160", "42">>, <<"vbl", "160", "">>}}

\* A directory gives each file an mtime, 0 for a file that is not there.
Directories == [AllFiles -> 0..MaxMtime]

Present(dir) == {f \in AllFiles : dir[f] > 0}

\* vbl.py:172-192 on a directory: the outcomes the function can have. Files
\* of equal mtime are in the order glob gave them, which is any order.
ResolveOutcomes(dir, ph) ==
    LET candidates == {f \in Present(dir) : GlobMatches(f.name, ph)}
        fallback == {f \in Present(dir) : f.name = ProvisionalName(ph)}
        found == _resolve_competition_file(
                     [renamed |-> {dir[f] : f \in candidates},
                      provisional |-> fallback # {}])
    IN IF found.kind = "renamed"
       THEN {[kind |-> "file", file |-> f, phase |-> ph] :
                f \in {c \in candidates : dir[c] = found.mtime}}
       ELSE IF found.kind = "provisional"
       THEN {[kind |-> "file", file |-> f, phase |-> ph] : f \in fallback}
       ELSE {[kind |-> "FileNotFoundError", file |-> FileOf(ph, "provisional", <<>>),
              phase |-> ph]}

RsInit ==
    /\ rpc = "idle"
    /\ data_dir = [f \in AllFiles |-> 0]
    /\ query = <<"vbl", "160", "42">>
    /\ resolver_result = [kind |-> "none", file |-> FileOf(<<"vbl", "160", "42">>, "provisional", <<>>),
                          phase |-> <<"vbl", "160", "42">>]

\* The state of data/ and the phase asked for, as a call finds them.
ListDataDir ==
    /\ rpc = "idle"
    /\ \E dir \in Directories, ph \in KnownPhases :
         /\ data_dir' = dir
         /\ query' = ph
    /\ rpc' = "listed"
    /\ UNCHANGED resolver_result

\* vbl.py:172-192
ResolveCall ==
    /\ rpc = "listed"
    /\ resolver_result' \in ResolveOutcomes(data_dir, query)
    /\ rpc' = "returned"
    /\ UNCHANGED <<data_dir, query>>

Init == WfInit /\ SpInit /\ RsInit

Next ==
    \/ LaunchCrawl /\ UNCHANGED <<spvars, rsvars>>
    \/ ResolveAndRead /\ UNCHANGED <<spvars, rsvars>>
    \/ CallRunWorkflow /\ UNCHANGED <<spvars, rsvars>>

Spec == Init /\ [][Next]_vars

SpiderNext ==
    \/ SpiderConstruct /\ UNCHANGED <<wfvars, rsvars>>
    \/ Parse /\ UNCHANGED <<wfvars, rsvars>>
    \/ Closed /\ UNCHANGED <<wfvars, rsvars>>
    \/ ResolveAfterCrawl /\ UNCHANGED <<wfvars, rsvars>>

SpiderSpec == Init /\ [][SpiderNext]_vars

ResolverNext ==
    \/ ListDataDir /\ UNCHANGED <<wfvars, spvars>>
    \/ ResolveCall /\ UNCHANGED <<wfvars, spvars>>

ResolverSpec == Init /\ [][ResolverNext]_vars

----------------------------------------------------------------------------
(* Properties of the workflow, checked under Spec *)

Fed == "vbl"    \* phases[0]["fed_acronym"] of the shipped phase list

RECURSIVE FirstOccurrences(_, _)
FirstOccurrences(ids, seen) ==
    IF ids = <<>> THEN <<>>
    ELSE IF Head(ids) \in seen THEN FirstOccurrences(Tail(ids), seen)
         ELSE <<Head(ids)>> \o FirstOccurrences(Tail(ids), seen \cup {Head(ids)})

RECURSIVE ReadSoFar(_)
ReadSoFar(p) == IF p = 0 THEN <<>> ELSE ReadSoFar(p - 1) \o read_ids[p]

NoDuplicates(s) == \A i, j \in 1..Len(s) : i # j => s[i] # s[j]

LoopFinished == phase_index > MaxPhases
Ended == pc \in {"raised", "returned"}

\* C1: after the phase loop the queue is the union of all phases' IDs, each
\* once, in order of first occurrence across the phases.
C1_QueueIsFirstOccurrences ==
    LoopFinished => unique_match_ids = FirstOccurrences(ReadSoFar(MaxPhases), {})

\* C2: the fresh-ID list of a phase never holds an ID twice, also when the
\* phase's own file lists the ID more than once.
C2_FreshIdsHaveNoDuplicates == NoDuplicates(fresh_ids)

\* C3: a phase's file is resolved and read only after that phase's crawl has
\* completed, and the next phase's crawl is launched only after it too.
C3_CrawlCompletedBeforeResolve ==
    \A p \in Phases :
        /\ resolved[p] # "none" => crawl[p] = "completed"
        /\ (p > 1 /\ crawl[p] # "idle") => crawl[p - 1] = "completed"

\* C4: with a non-empty queue after all phases, the workflow has scheduled,
\* by the time it ends, the home and the guest job of every queued ID, in
\* queue order, all with the one federation, and nothing else.
C4_TwoJobsPerQueuedId ==
    (Ended /\ LoopFinished /\ unique_match_ids # <<>>)
        => jobs = _collect_match_statistics(Fed, unique_match_ids)

\* C5: what the workflow raises after the phase loop is the failure of a
\* fan-out job; when no job failed, nothing is raised.
C5_OnlyJobFailureIsRaised ==
    (LoopFinished /\ raised # "none") => raised = "JobFailure"

\* C6: a phase whose file cannot be resolved ends the workflow there: the
\* error reaches the caller, no later phase is crawled, no job is scheduled.
C6_PhaseFailureAborts ==
    \A p \in Phases :
        resolved[p] = "NotFound" =>
            /\ pc = "raised"
            /\ raised = "FileNotFoundError"
            /\ phase_index = p
            /\ \A q \in Phases : q > p => crawl[q] = "idle" /\ resolved[q] = "none"
            /\ jobs = <<>>

\* The first phase's file does not resolve: the second phase is never crawled.
C6_Witness ==
    /\ pc = "raised"
    /\ resolved[1] = "NotFound"
    /\ crawl[2] = "idle"

\* C7: a run in which every phase's file resolves and no fan-out job fails
\* ends in COMPLETE: the function returns without raising.
C7_EndsComplete ==
    (Ended /\ \A p \in Phases : resolved[p] \in {"renamed", "provisional"})
        => pc = "returned"

\* C8: with an empty queue after all phases the workflow ends successfully
\* and schedules no job.
C8_EmptyQueueEndsCleanly ==
    (Ended /\ LoopFinished /\ unique_match_ids = <<>>)
        => (raised = "none" /\ jobs = <<>>)

----------------------------------------------------------------------------
(* Properties of the spider, checked under SpiderSpec *)

Parsed == spc \in {"parsed", "closed", "resolved"}

\* The filter as stated: a bound counts whenever it is set.
InWindow(year, start, end) ==
    IF year # None
    THEN /\ (start = None \/ The(year) >= The(start))
         /\ (end = None \/ The(year) <= The(end))
    ELSE start = None /\ end = None

\* The rows parse reached, filtered by InWindow.
RECURSIVE RowsInWindow(_, _, _)
RowsInWindow(rows, start, end) ==
    IF rows = <<>> \/ Head(rows).onclick # "ok" THEN <<>>
    ELSE LET match_date == parse_short_date(Head(rows).date_text)
         IN (IF InWindow(MatchYear(match_date), start, end)
             THEN <<[match_date |-> match_date]>> ELSE <<>>)
            \o RowsInWindow(Tail(rows), start, end)

\* C9: a row is kept iff (start unset or y >= start) and (end unset or
\* y <= end); a row without a parsable date is kept iff both bounds are unset.
C9_SeasonFilter ==
    Parsed => emitted = RowsInWindow(page, season_start_year, season_end_year)

EmittedYears == {d \div 100 : d \in ItemDates(emitted)}

\* C10: the rename at close targets the name of (min_year, max_year), the
\* least and greatest year among the dates of the records that survived the
\* filter; a parse that ran to its end with such a record makes closed
\* build that target.
C10_RenameTargetIsMinMaxYear ==
    spc = "closed" =>
        /\ rename_target # None =>
              /\ EmittedYears # {}
              /\ rename_target = Some(<<SetMin(EmittedYears), SetMax(EmittedYears)>>)
              /\ Truthy(season_start_year) => The(rename_target)[1] >= The(season_start_year)
              /\ Truthy(season_end_year) => The(rename_target)[2] <= The(season_end_year)
        /\ (EmittedYears # {} /\ spider_raised \notin {"TypeError", "AttributeError"})
              => rename_target # None

\* Window {2025, 2026}; rows of 2024, 2026 and 2025 in that order: the rows
\* of 2026 and 2025 survive and the target is 2025-2026.
C10_Witness ==
    /\ spc = "closed"
    /\ season_start_year = Some(2025)
    /\ season_end_year = Some(2026)
    /\ Len(page) = 3
    /\ page[1].date_text = 202406
    /\ page[2].date_text = 202611
    /\ page[3].date_text = 202503
    /\ emitted = <<[match_date |-> Some(202611)], [match_date |-> Some(202503)]>>
    /\ rename_target = Some(<<2025, 2026>>)
    /\ rename_outcome = "renamed"

NoFilter == season_start_year = None /\ season_end_year = None

AllRowsOk == \A k \in 1..Len(page) : page[k].onclick = "ok"

\* C11: with no season filter a row without a parsable date is kept and
\* left out of the year range; when no surviving row has a date, parse
\* still finishes without raising and closed renames nothing.
C11_UndatedRowsKeptWithoutRaising ==
    (Parsed /\ NoFilter /\ AllRowsOk) =>
        /\ Len(emitted) = Len(page)
        /\ spider_raised = "none"
        /\ (ItemDates(emitted) = {} => rename_target = None)

\* C12: when the rename target exists already, closed leaves that file with
\* its earlier content, leaves the provisional file in place and raises
\* nothing.
C12_CollisionKeepsPriorFile ==
    (spc = "closed" /\ rename_outcome \in {"exists", "replaced"}) =>
        /\ \E f \in renamed_files :
              /\ <<f.first, f.last>> = The(rename_target)
              /\ f.content = "prior"
        /\ prov_file = "fresh"
        /\ spider_raised = "none"

\* C14: season bounds that are both present with end < start make __init__
\* fail with ValueError, so that nothing is requested or emitted.
C14_InvertedRangeIsRejected ==
    (spc # "new" /\ season_start_year # None /\ season_end_year # None
        /\ The(season_end_year) < The(season_start_year))
      => (spc = "init_failed" /\ spider_raised = "ValueError" /\ emitted = <<>>)

\* C20: parse never raises on a row whose match link lacks the mID=<digits>
\* attribute; it emits nothing for that row and completes.
C20_ParseToleratesMissingMatchId ==
    Parsed => spider_raised \notin {"TypeError", "AttributeError"}

\* C17: a crawl that closes with zero surviving records renames nothing and
\* raises nothing; every file in data/ is as it was before the close.
C17_ZeroRecordsCloseChangesNothing ==
    [][(spc = "parsed" /\ spc' = "closed" /\ items_scraped = 0) =>
          /\ prov_file' = prov_file
          /\ renamed_files' = renamed_files
          /\ rename_target' = None
          /\ rename_outcome' = "none"
          /\ spider_raised' = spider_raised]_vars

\* Every row of the page fell outside the season window; the provisional and
\* the renamed file of an earlier run are still there after the close.
C17_Witness ==
    /\ spc = "closed"
    /\ items_scraped = 0
    /\ page # <<>>
    /\ AllRowsOk
    /\ prov_file = "prior"
    /\ renamed_files # {}
    /\ \A f \in renamed_files : f.content = "prior"
    /\ spider_raised = "none"

IsPrefix(s, t) == Len(s) <= Len(t) /\ \A k \in 1..Len(s) : s[k] = t[k]

\* C18: across the phase loop the queue grows only by appending,
\* seen_match_ids is the set of the queue's elements, and a phase without
\* fresh IDs changes neither and lets the loop go on to the next phase.
C18_QueueGrowsByAppending ==
    /\ [](seen_match_ids = Range(unique_match_ids))
    /\ [][/\ IsPrefix(unique_match_ids, unique_match_ids')
          /\ seen_match_ids \subseteq seen_match_ids'
          /\ (pc = "collect" /\ resolved'[phase_index] \in {"renamed", "provisional"}
                /\ FilterUnseen(read_ids'[phase_index], seen_match_ids) = <<>>)
             => /\ unique_match_ids' = unique_match_ids
                /\ seen_match_ids' = seen_match_ids
                /\ pc' = "loop_head"
                /\ phase_index' = phase_index + 1]_vars

\* The second phase's file lists only an ID the first phase queued: the
\* queue is unchanged and the loop has moved past the second phase.
C18_Witness ==
    /\ Len(read_ids[1]) = 1
    /\ read_ids[2] = read_ids[1]
    /\ resolved[2] \in {"renamed", "provisional"}
    /\ fresh_ids = <<>>
    /\ unique_match_ids = read_ids[1]
    /\ phase_index = 3
    /\ pc = "loop_head"

KnownDefaultPairs == {<<"vbl", "160">>, <<"vbl", "185">>}

\* C19: without season arguments a spider of a known default pair gets the
\* window 2025-2026, with the filter active; with at least one argument
\* given, or for any other pair, the bounds are the arguments themselves and
\* a bound not given stays unset.
C19_DefaultSeasonWindow ==
    spc # "new" =>
        IF season_args = <<None, None>> /\ comp_key \in KnownDefaultPairs
        THEN /\ season_start_year = Some(2025)
             /\ season_end_year = Some(2026)
             /\ (Parsed => \A k \in 1..Len(emitted) :
                    /\ emitted[k].match_date # None
                    /\ The(emitted[k].match_date) \div 100 \in 2025..2026)
        ELSE /\ season_start_year = season_args[1]
             /\ season_end_year = season_args[2]

\* No arguments for (vbl, 160): the default window dropped the row of 2024
\* and kept the row of 2025.
C19_Witness ==
    /\ Parsed
    /\ comp_key = <<"vbl", "160">>
    /\ season_args = <<None, None>>
    /\ Len(page) = 2
    /\ page[1] = [onclick |-> "ok", date_text |-> 202406]
    /\ page[2] = [onclick |-> "ok", date_text |-> 202503]
    /\ emitted = <<[match_date |-> Some(202503)]>>

\* Only the end year is given for (vbl, 160): no default, the start stays
\* unset, so the row of 2024 is kept.
C19_WitnessExplicit ==
    /\ Parsed
    /\ comp_key = <<"vbl", "160">>
    /\ season_args = <<None, Some(2026)>>
    /\ season_start_year = None
    /\ Len(emitted) = 1
    /\ emitted[1].match_date = Some(202406)

----------------------------------------------------------------------------
(* Properties of _resolve_competition_file, checked under ResolverSpec *)

\* The renamed files in data/ that are of exactly the phase asked for.
OwnRenamed == {f \in Present(data_dir) : f.kind = "renamed" /\ f.owner = query}
OwnProvisional == {f \in Present(data_dir) : f.kind = "provisional" /\ f.owner = query}

\* C13: the call returns the most recently modified renamed file of exactly
\* the phase asked for; without one, that phase's provisional file; without
\* that, FileNotFoundError naming the phase. It never returns another
\* phase's file.
C13_ResolvesOwnNewestFile ==
    rpc = "returned" =>
        IF OwnRenamed # {}
        THEN /\ resolver_result.kind = "file"
             /\ resolver_result.file \in OwnRenamed
             /\ \A f \in OwnRenamed : data_dir[f] <= data_dir[resolver_result.file]
        ELSE IF OwnProvisional # {}
        THEN resolver_result.kind = "file" /\ resolver_result.file \in OwnProvisional
        ELSE resolver_result.kind = "FileNotFoundError" /\ resolver_result.phase = query

----------------------------------------------------------------------------
\* C15: the file found for a phase after its crawl is the one this crawl
\* made authoritative: the file it renamed, written in this run, or else
\* the provisional file; never a renamed file an earlier run left.
C15_HandedBackFileIsThisRuns ==
    (spc = "resolved" /\ handed_back.kind # "NotFound") =>
        IF rename_outcome \in {"renamed", "replaced"}
        THEN handed_back = [kind |-> "renamed", content |-> "fresh"]
        ELSE handed_back.kind = "provisional"

----------------------------------------------------------------------------
====
